---- MODULE Spec2Model ----
(***************************************************************************)
(* Page-replacement simulator of main.py: the MemoryAccessor streams, the  *)
(* eight PhysicsMemory engines and the simulate driver.                    *)
(*                                                                         *)
(* A page id is the string f"{pid}{page}"; with the one-letter pids of     *)
(* main and positive page numbers the formatting is injective, and a page  *)
(* id is written here as the pair <<pid, page>>.                           *)
(* A Python dict is the sequence of its items <<key, value>> in insertion  *)
(* order, a deque the sequence of its elements, a set a set.               *)
(***************************************************************************)
EXTENDS Integers, Sequences, FiniteSets, TLC

\* Bounds of the model.
MaxLen == 3
MaxPage == 2
MaxSize == 3
NumPids == 2

\* float("inf"): larger than every distance in a trace.
inf == 1000000

\* The value None.
None == <<>>

\* The result of a failed list.index (ValueError).
ValueError == -1

pids == SubSeq(<<"A", "B", "C">>, 1, NumPids)

Range(s) == {s[i] : i \in DOMAIN s}

----------------------------------------------------------------------------
\* Python containers.

dict_contains(d, k) == \E i \in DOMAIN d : d[i][1] = k

dict_get(d, k) == d[CHOOSE i \in DOMAIN d : d[i][1] = k][2]

\* d[k] = v: an existing key keeps its place, a new key goes last.
dict_set(d, k, v) ==
    IF dict_contains(d, k)
    THEN [i \in DOMAIN d |-> IF d[i][1] = k THEN <<k, v>> ELSE d[i]]
    ELSE Append(d, <<k, v>>)

dict_del(d, k) == SelectSeq(d, LAMBDA e : e[1] # k)

dict_keys(d) == {d[i][1] : i \in DOMAIN d}

\* min(items, key=value): the first item with the smallest value.
py_min(items) ==
    items[CHOOSE i \in DOMAIN items :
            \A j \in DOMAIN items :
                /\ items[i][2] <= items[j][2]
                /\ (j < i => items[j][2] > items[i][2])]

\* max(items, key=value): the first item with the largest value.
py_max(items) ==
    items[CHOOSE i \in DOMAIN items :
            \A j \in DOMAIN items :
                /\ items[i][2] >= items[j][2]
                /\ (j < i => items[j][2] < items[i][2])]

\* pages.index(page_id, start), 0-based; ValueError when absent.
RECURSIVE list_index(_, _, _)
list_index(pages, page_id, start) ==
    IF start >= Len(pages) THEN ValueError
    ELSE IF pages[start + 1] = page_id THEN start
    ELSE list_index(pages, page_id, start + 1)

----------------------------------------------------------------------------
\* MemoryAccessor.

MemoryAccessor(pid, accesses) ==
    [pid |-> pid,
     accesses |-> [i \in DOMAIN accesses |-> <<pid, accesses[i]>>],
     idx |-> -1]

\* Variant: the cursor is reset when the end is reached.
MemoryAccessor_next_rewind(a) ==
    LET idx == a.idx + 1
    IN IF idx < Len(a.accesses)
       THEN [ret |-> a.accesses[idx + 1], acc |-> [a EXCEPT !.idx = idx]]
       ELSE [ret |-> None, acc |-> [a EXCEPT !.idx = -1]]

\* __next__: the returned value and the accessor afterwards.
MemoryAccessor_next(a) ==
    LET idx == a.idx + 1
    IN [ret |-> IF idx < Len(a.accesses) THEN a.accesses[idx + 1] ELSE None,
        acc |-> [a EXCEPT !.idx = idx]]

----------------------------------------------------------------------------
\* The iteration of "for accessor in filter(not in finished, accessors)":
\* the first unfinished accessor at or after position i, 0 when none.
\* Variant: the loop iterates over accessors without the filter.
filter_next_all(finished, i, n) == IF i <= n THEN i ELSE 0

filter_next(finished, i, n) ==
    IF \E j \in i..n : j \notin finished
    THEN CHOOSE j \in i..n : j \notin finished /\ \A k \in i..(j - 1) : k \in finished
    ELSE 0

RECURSIVE row_vector_loop(_, _, _, _)
row_vector_loop(accs, finished, i, vector) ==
    LET n == Len(accs)
        j == filter_next(finished, i, n)
    IN IF j = 0
       THEN IF Cardinality(finished) < n
            THEN row_vector_loop(accs, finished, 1, vector)
            ELSE vector
       ELSE LET r == MemoryAccessor_next(accs[j])
            IN IF r.ret = None
               THEN row_vector_loop([accs EXCEPT ![j] = r.acc], finished \cup {j}, j + 1, vector)
               ELSE row_vector_loop([accs EXCEPT ![j] = r.acc], finished, j + 1,
                                    Append(vector, r.ret))

\* Variant: the streams are appended one after the other, not interleaved.
RECURSIVE get_row_vector_concat(_)
get_row_vector_concat(accs) ==
    IF accs = <<>> THEN <<>>
    ELSE accs[1].accesses \o get_row_vector_concat(Tail(accs))

get_row_vector_from_accessors(accs) == row_vector_loop(accs, {}, 1, <<>>)

----------------------------------------------------------------------------
\* GlobalOptMemory.

GlobalOptMemory(accesses, size) ==
    [cls |-> "GlobalOptMemory", size |-> size, accesses |-> accesses,
     pages |-> Range(accesses), page_pointer |-> -1, memory |-> {},
     pointers_count |-> [p \in {} |-> 0]]

GlobalOptMemory_contains(m, pid, page_id) == page_id \in m.memory

GlobalOptMemory_is_free(m) == Cardinality(m.memory) < m.size

GlobalOptMemory_use(m, pid, page_id) ==
    [raised |-> page_id \notin m.memory, m |-> m]

\* The distance tick stores for one page.
opt_distance(accesses, page_id, page_pointer) ==
    LET next_idx == list_index(accesses, page_id, page_pointer)
    IN IF next_idx = ValueError THEN inf ELSE next_idx - page_pointer

\* max() returns the first largest item in the order of _pointers_count,
\* which is the iteration order of the set _pages: the hash order of the
\* page strings, different from one interpreter run to the next.  Only
\* pages at distance inf can tie, an evicted one of them never returns, so
\* every choice among the tied residents is the choice of some hash order.
opt_swap(memory, pointers_count) ==
    LET in_memory == {p \in DOMAIN pointers_count : p \in memory}
    IN {p \in in_memory : \A q \in in_memory : pointers_count[p] >= pointers_count[q]}

\* Variant: min where max is meant.
GlobalOptMemory_swap_min(m, pid) ==
    LET in_memory == {p \in DOMAIN m.pointers_count : p \in m.memory}
    IN {[ret |-> p, m |-> [m EXCEPT !.memory = @ \ {p}]] :
          p \in {p \in in_memory :
                   \A q \in in_memory : m.pointers_count[p] <= m.pointers_count[q]}}

GlobalOptMemory_swap(m, pid) ==
    {[ret |-> p, m |-> [m EXCEPT !.memory = @ \ {p}]] :
        p \in opt_swap(m.memory, m.pointers_count)}

GlobalOptMemory_allocate(m, pid, page_id) ==
    [m EXCEPT !.memory = @ \cup {page_id}]

GlobalOptMemory_tick(m) ==
    LET pointer == m.page_pointer + 1
    IN [m EXCEPT !.page_pointer = pointer,
                 !.pointers_count =
                     [p \in m.pages |-> opt_distance(m.accesses, p, pointer)]]

----------------------------------------------------------------------------
\* GlobalFifoMemory.

GlobalFifoMemory(size) ==
    [cls |-> "GlobalFifoMemory", size |-> size, memory |-> <<>>]

GlobalFifoMemory_contains(m, pid, page_id) == page_id \in Range(m.memory)

GlobalFifoMemory_is_free(m) == Len(m.memory) < m.size

GlobalFifoMemory_use(m, pid, page_id) ==
    [raised |-> page_id \notin Range(m.memory), m |-> m]

\* Variant: pop() where popleft() is meant.
GlobalFifoMemory_swap_pop(m, pid) ==
    IF m.memory = <<>> THEN {}
    ELSE {[ret |-> m.memory[Len(m.memory)],
           m |-> [m EXCEPT !.memory = SubSeq(@, 1, Len(@) - 1)]]}

GlobalFifoMemory_swap(m, pid) ==
    IF m.memory = <<>> THEN {}
    ELSE {[ret |-> Head(m.memory), m |-> [m EXCEPT !.memory = Tail(@)]]}

GlobalFifoMemory_allocate(m, pid, page_id) ==
    [m EXCEPT !.memory = Append(@, page_id)]

GlobalFifoMemory_tick(m) == m

----------------------------------------------------------------------------
\* GlobalLfuMemory.

GlobalLfuMemory(size) ==
    [cls |-> "GlobalLfuMemory", size |-> size, memory |-> <<>>]

GlobalLfuMemory_contains(m, pid, page_id) == dict_contains(m.memory, page_id)

GlobalLfuMemory_is_free(m) == Len(m.memory) < m.size

GlobalLfuMemory_use(m, pid, page_id) ==
    IF ~dict_contains(m.memory, page_id)
    THEN [raised |-> TRUE, m |-> m]
    ELSE [raised |-> FALSE,
          m |-> [m EXCEPT !.memory = dict_set(@, page_id, dict_get(@, page_id) + 1)]]

\* Variant: among the smallest counts the last item is taken, not the first.
GlobalLfuMemory_swap_last(m, pid) ==
    IF m.memory = <<>> THEN {}
    ELSE LET i == CHOOSE i \in DOMAIN m.memory :
                     \A j \in DOMAIN m.memory :
                         /\ m.memory[i][2] <= m.memory[j][2]
                         /\ (j > i => m.memory[j][2] > m.memory[i][2])
             not_frequency_page == m.memory[i][1]
         IN {[ret |-> not_frequency_page,
              m |-> [m EXCEPT !.memory = dict_del(@, not_frequency_page)]]}

\* Variant: max where min is meant.
GlobalLfuMemory_swap_max(m, pid) ==
    IF m.memory = <<>> THEN {}
    ELSE LET not_frequency_page == py_max(m.memory)[1]
         IN {[ret |-> not_frequency_page,
              m |-> [m EXCEPT !.memory = dict_del(@, not_frequency_page)]]}

GlobalLfuMemory_swap(m, pid) ==
    IF m.memory = <<>> THEN {}
    ELSE LET not_frequency_page == py_min(m.memory)[1]
         IN {[ret |-> not_frequency_page,
              m |-> [m EXCEPT !.memory = dict_del(@, not_frequency_page)]]}

GlobalLfuMemory_allocate(m, pid, page_id) ==
    [m EXCEPT !.memory = dict_set(@, page_id, 1)]

GlobalLfuMemory_tick(m) == m

----------------------------------------------------------------------------
\* GlobalLruMemory.

GlobalLruMemory(size) ==
    [cls |-> "GlobalLruMemory", size |-> size, memory |-> <<>>]

GlobalLruMemory_contains(m, pid, page_id) == dict_contains(m.memory, page_id)

\* Variant: the last frame is never handed out.
GlobalLruMemory_is_free_short(m) == Len(m.memory) + 1 < m.size

GlobalLruMemory_is_free(m) == Len(m.memory) < m.size

\* Variant: a hit does not reset the counter.
GlobalLruMemory_use_no_reset(m, pid, page_id) ==
    [raised |-> ~dict_contains(m.memory, page_id), m |-> m]

GlobalLruMemory_use(m, pid, page_id) ==
    IF ~dict_contains(m.memory, page_id)
    THEN [raised |-> TRUE, m |-> m]
    ELSE [raised |-> FALSE, m |-> [m EXCEPT !.memory = dict_set(@, page_id, 0)]]

GlobalLruMemory_swap(m, pid) ==
    IF m.memory = <<>> THEN {}
    ELSE LET old_page == py_max(m.memory)[1]
         IN {[ret |-> old_page, m |-> [m EXCEPT !.memory = dict_del(@, old_page)]]}

\* Variant: the counter of a new page starts at 1, as the LFU count does.
GlobalLruMemory_allocate_one(m, pid, page_id) ==
    [m EXCEPT !.memory = dict_set(@, page_id, 1)]

GlobalLruMemory_allocate(m, pid, page_id) ==
    [m EXCEPT !.memory = dict_set(@, page_id, 0)]

GlobalLruMemory_tick(m) ==
    [m EXCEPT !.memory = [i \in DOMAIN @ |-> <<@[i][1], @[i][2] + 1>>]]

----------------------------------------------------------------------------
\* sum(len(local) for local in self._memory.values()): the locals are
\* sets in LocalOptMemory, deques or dicts in the other local engines.
RECURSIVE sum_card(_, _)
sum_card(memory, keys) ==
    IF keys = {} THEN 0
    ELSE LET k == CHOOSE x \in keys : TRUE
         IN Cardinality(memory[k]) + sum_card(memory, keys \ {k})

RECURSIVE sum_len(_, _)
sum_len(memory, keys) ==
    IF keys = {} THEN 0
    ELSE LET k == CHOOSE x \in keys : TRUE
         IN Len(memory[k]) + sum_len(memory, keys \ {k})

----------------------------------------------------------------------------
\* LocalOptMemory.

LocalOptMemory(pids_, accesses, size) ==
    [cls |-> "LocalOptMemory", size |-> size,
     memory |-> [pid \in Range(pids_) |-> {}],
     pointers_count |-> [p \in {} |-> 0], page_pointer |-> -1,
     pages |-> Range(accesses), accesses |-> accesses]

LocalOptMemory_contains(m, pid, page_id) == page_id \in m.memory[pid]

LocalOptMemory_is_free(m) == sum_card(m.memory, DOMAIN m.memory) < m.size

LocalOptMemory_use(m, pid, page_id) ==
    [raised |-> page_id \notin m.memory[pid], m |-> m]

LocalOptMemory_swap(m, pid) ==
    {[ret |-> p, m |-> [m EXCEPT !.memory[pid] = @ \ {p}]] :
        p \in opt_swap(m.memory[pid], m.pointers_count)}

LocalOptMemory_allocate(m, pid, page_id) ==
    [m EXCEPT !.memory[pid] = @ \cup {page_id}]

LocalOptMemory_tick(m) ==
    LET pointer == m.page_pointer + 1
    IN [m EXCEPT !.page_pointer = pointer,
                 !.pointers_count =
                     [p \in m.pages |-> opt_distance(m.accesses, p, pointer)]]

----------------------------------------------------------------------------
\* LocalFifoMemory.

LocalFifoMemory(pids_, size) ==
    [cls |-> "LocalFifoMemory", size |-> size,
     memory |-> [pid \in Range(pids_) |-> <<>>]]

LocalFifoMemory_contains(m, pid, page_id) == page_id \in Range(m.memory[pid])

\* Variant: <= where < is meant.
LocalFifoMemory_is_free_le(m) == sum_len(m.memory, DOMAIN m.memory) <= m.size

LocalFifoMemory_is_free(m) == sum_len(m.memory, DOMAIN m.memory) < m.size

LocalFifoMemory_use(m, pid, page_id) ==
    [raised |-> page_id \notin Range(m.memory[pid]), m |-> m]

\* Variant: an empty deque is tolerated and None is returned.
LocalFifoMemory_swap_silent(m, pid) ==
    IF m.memory[pid] = <<>> THEN {[ret |-> None, m |-> m]}
    ELSE {[ret |-> Head(m.memory[pid]), m |-> [m EXCEPT !.memory[pid] = Tail(@)]]}

\* popleft of an empty deque raises IndexError.
LocalFifoMemory_swap(m, pid) ==
    IF m.memory[pid] = <<>> THEN {}
    ELSE {[ret |-> Head(m.memory[pid]), m |-> [m EXCEPT !.memory[pid] = Tail(@)]]}

LocalFifoMemory_allocate(m, pid, page_id) ==
    [m EXCEPT !.memory[pid] = Append(@, page_id)]

LocalFifoMemory_tick(m) == m

----------------------------------------------------------------------------
\* LocalLfuMemory.

LocalLfuMemory(pids_, size) ==
    [cls |-> "LocalLfuMemory", size |-> size,
     memory |-> [pid \in Range(pids_) |-> <<>>]]

LocalLfuMemory_contains(m, pid, page_id) == dict_contains(m.memory[pid], page_id)

LocalLfuMemory_is_free(m) == sum_len(m.memory, DOMAIN m.memory) < m.size

LocalLfuMemory_use(m, pid, page_id) ==
    LET local == m.memory[pid]
    IN IF ~dict_contains(local, page_id)
       THEN [raised |-> TRUE, m |-> m]
       ELSE [raised |-> FALSE,
             m |-> [m EXCEPT !.memory[pid] =
                                 dict_set(local, page_id, dict_get(local, page_id) + 1)]]

\* Variant: the victim is taken from the local that holds the smallest
\* count of all, not from the local of pid.
LocalLfuMemory_swap_any(m, pid) ==
    LET used == {q \in DOMAIN m.memory : m.memory[q] # <<>>}
    IN IF used = {} THEN {}
       ELSE LET owner == CHOOSE q \in used :
                            \A r \in used : py_min(m.memory[q])[2] <= py_min(m.memory[r])[2]
                not_frequency_page == py_min(m.memory[owner])[1]
            IN {[ret |-> not_frequency_page,
                 m |-> [m EXCEPT !.memory[owner] = dict_del(@, not_frequency_page)]]}

\* min of an empty sequence raises ValueError.
LocalLfuMemory_swap(m, pid) ==
    LET local == m.memory[pid]
    IN IF local = <<>> THEN {}
       ELSE LET not_frequency_page == py_min(local)[1]
            IN {[ret |-> not_frequency_page,
                 m |-> [m EXCEPT !.memory[pid] = dict_del(local, not_frequency_page)]]}

LocalLfuMemory_allocate(m, pid, page_id) ==
    [m EXCEPT !.memory[pid] = dict_set(@, page_id, 1)]

LocalLfuMemory_tick(m) == m

----------------------------------------------------------------------------
\* LocalLruMemory.

LocalLruMemory(pids_, size) ==
    [cls |-> "LocalLruMemory", size |-> size,
     memory |-> [pid \in Range(pids_) |-> <<>>]]

LocalLruMemory_contains(m, pid, page_id) == dict_contains(m.memory[pid], page_id)

LocalLruMemory_is_free(m) == sum_len(m.memory, DOMAIN m.memory) < m.size

LocalLruMemory_use(m, pid, page_id) ==
    LET local == m.memory[pid]
    IN IF ~dict_contains(local, page_id)
       THEN [raised |-> TRUE, m |-> m]
       ELSE [raised |-> FALSE, m |-> [m EXCEPT !.memory[pid] = dict_set(local, page_id, 0)]]

\* max of an empty sequence raises ValueError.
LocalLruMemory_swap(m, pid) ==
    LET local == m.memory[pid]
    IN IF local = <<>> THEN {}
       ELSE LET old_page == py_max(local)[1]
            IN {[ret |-> old_page, m |-> [m EXCEPT !.memory[pid] = dict_del(local, old_page)]]}

LocalLruMemory_allocate(m, pid, page_id) ==
    [m EXCEPT !.memory[pid] = dict_set(@, page_id, 0)]

LocalLruMemory_tick(m) ==
    [m EXCEPT !.memory =
        [pid \in DOMAIN @ |-> [i \in DOMAIN @[pid] |-> <<@[pid][i][1], @[pid][i][2] + 1>>]]]

----------------------------------------------------------------------------
\* PhysicsMemory: the abstract methods, dispatched on the class of m.

GlobalClasses == {"GlobalOptMemory", "GlobalFifoMemory", "GlobalLfuMemory", "GlobalLruMemory"}

LocalClasses == {"LocalOptMemory", "LocalFifoMemory", "LocalLfuMemory", "LocalLruMemory"}

Classes == GlobalClasses \cup LocalClasses

contains(m, pid, page_id) ==
    CASE m.cls = "GlobalOptMemory" -> GlobalOptMemory_contains(m, pid, page_id)
      [] m.cls = "GlobalFifoMemory" -> GlobalFifoMemory_contains(m, pid, page_id)
      [] m.cls = "GlobalLfuMemory" -> GlobalLfuMemory_contains(m, pid, page_id)
      [] m.cls = "GlobalLruMemory" -> GlobalLruMemory_contains(m, pid, page_id)
      [] m.cls = "LocalOptMemory" -> LocalOptMemory_contains(m, pid, page_id)
      [] m.cls = "LocalFifoMemory" -> LocalFifoMemory_contains(m, pid, page_id)
      [] m.cls = "LocalLfuMemory" -> LocalLfuMemory_contains(m, pid, page_id)
      [] m.cls = "LocalLruMemory" -> LocalLruMemory_contains(m, pid, page_id)

is_free(m) ==
    CASE m.cls = "GlobalOptMemory" -> GlobalOptMemory_is_free(m)
      [] m.cls = "GlobalFifoMemory" -> GlobalFifoMemory_is_free(m)
      [] m.cls = "GlobalLfuMemory" -> GlobalLfuMemory_is_free(m)
      [] m.cls = "GlobalLruMemory" -> GlobalLruMemory_is_free(m)
      [] m.cls = "LocalOptMemory" -> LocalOptMemory_is_free(m)
      [] m.cls = "LocalFifoMemory" -> LocalFifoMemory_is_free(m)
      [] m.cls = "LocalLfuMemory" -> LocalLfuMemory_is_free(m)
      [] m.cls = "LocalLruMemory" -> LocalLruMemory_is_free(m)

use(m, pid, page_id) ==
    CASE m.cls = "GlobalOptMemory" -> GlobalOptMemory_use(m, pid, page_id)
      [] m.cls = "GlobalFifoMemory" -> GlobalFifoMemory_use(m, pid, page_id)
      [] m.cls = "GlobalLfuMemory" -> GlobalLfuMemory_use(m, pid, page_id)
      [] m.cls = "GlobalLruMemory" -> GlobalLruMemory_use(m, pid, page_id)
      [] m.cls = "LocalOptMemory" -> LocalOptMemory_use(m, pid, page_id)
      [] m.cls = "LocalFifoMemory" -> LocalFifoMemory_use(m, pid, page_id)
      [] m.cls = "LocalLfuMemory" -> LocalLfuMemory_use(m, pid, page_id)
      [] m.cls = "LocalLruMemory" -> LocalLruMemory_use(m, pid, page_id)

swap(m, pid) ==
    CASE m.cls = "GlobalOptMemory" -> GlobalOptMemory_swap(m, pid)
      [] m.cls = "GlobalFifoMemory" -> GlobalFifoMemory_swap(m, pid)
      [] m.cls = "GlobalLfuMemory" -> GlobalLfuMemory_swap(m, pid)
      [] m.cls = "GlobalLruMemory" -> GlobalLruMemory_swap(m, pid)
      [] m.cls = "LocalOptMemory" -> LocalOptMemory_swap(m, pid)
      [] m.cls = "LocalFifoMemory" -> LocalFifoMemory_swap(m, pid)
      [] m.cls = "LocalLfuMemory" -> LocalLfuMemory_swap(m, pid)
      [] m.cls = "LocalLruMemory" -> LocalLruMemory_swap(m, pid)

allocate(m, pid, page_id) ==
    CASE m.cls = "GlobalOptMemory" -> GlobalOptMemory_allocate(m, pid, page_id)
      [] m.cls = "GlobalFifoMemory" -> GlobalFifoMemory_allocate(m, pid, page_id)
      [] m.cls = "GlobalLfuMemory" -> GlobalLfuMemory_allocate(m, pid, page_id)
      [] m.cls = "GlobalLruMemory" -> GlobalLruMemory_allocate(m, pid, page_id)
      [] m.cls = "LocalOptMemory" -> LocalOptMemory_allocate(m, pid, page_id)
      [] m.cls = "LocalFifoMemory" -> LocalFifoMemory_allocate(m, pid, page_id)
      [] m.cls = "LocalLfuMemory" -> LocalLfuMemory_allocate(m, pid, page_id)
      [] m.cls = "LocalLruMemory" -> LocalLruMemory_allocate(m, pid, page_id)

tick(m) ==
    CASE m.cls = "GlobalOptMemory" -> GlobalOptMemory_tick(m)
      [] m.cls = "GlobalFifoMemory" -> GlobalFifoMemory_tick(m)
      [] m.cls = "GlobalLfuMemory" -> GlobalLfuMemory_tick(m)
      [] m.cls = "GlobalLruMemory" -> GlobalLruMemory_tick(m)
      [] m.cls = "LocalOptMemory" -> LocalOptMemory_tick(m)
      [] m.cls = "LocalFifoMemory" -> LocalFifoMemory_tick(m)
      [] m.cls = "LocalLfuMemory" -> LocalLfuMemory_tick(m)
      [] m.cls = "LocalLruMemory" -> LocalLruMemory_tick(m)

----------------------------------------------------------------------------
\* main: the workloads and the engine built for each class.

\* The lists of page numbers a workload generator may produce for one pid.
PageLists == UNION {[1..n -> 1..MaxPage] : n \in 0..MaxLen}

\* get_accessors: one fresh accessor per pid over the workload w.
get_accessors(pids_, w) == [i \in DOMAIN pids_ |-> MemoryAccessor(pids_[i], w[i])]

\* The element of main's list memories for class cls.
new_memory(cls, w, memory_size) ==
    CASE cls = "GlobalOptMemory" ->
            GlobalOptMemory(get_row_vector_from_accessors(get_accessors(pids, w)), memory_size)
      [] cls = "GlobalFifoMemory" -> GlobalFifoMemory(memory_size)
      [] cls = "GlobalLfuMemory" -> GlobalLfuMemory(memory_size)
      [] cls = "GlobalLruMemory" -> GlobalLruMemory(memory_size)
      [] cls = "LocalOptMemory" ->
            LocalOptMemory(pids, get_row_vector_from_accessors(get_accessors(pids, w)),
                           memory_size)
      [] cls = "LocalFifoMemory" -> LocalFifoMemory(pids, memory_size)
      [] cls = "LocalLfuMemory" -> LocalLfuMemory(pids, memory_size)
      [] cls = "LocalLruMemory" -> LocalLruMemory(pids, memory_size)

----------------------------------------------------------------------------
\* simulate.

VARIABLES
    accessors,            \* the list of MemoryAccessor objects
    memory,               \* the PhysicsMemory object
    page_faults_count,
    finished_accessors,   \* positions in accessors of the finished ones
    it,                   \* position the for loop's filter examines next
    pc,                   \* "running", "done" (total printed), "raised" (exception left simulate)
    output                \* the printed lines: one entry per consumed reference

vars == <<accessors, memory, page_faults_count, finished_accessors, it, pc, output>>

Init ==
    /\ \E w \in [DOMAIN pids -> PageLists], cls \in Classes, memory_size \in 1..MaxSize :
          /\ accessors = get_accessors(pids, w)
          /\ memory = new_memory(cls, w, memory_size)
    /\ page_faults_count = 0
    /\ finished_accessors = {}
    /\ it = 1
    /\ pc = "running"
    /\ output = <<>>

\* The accessor the loops poll next: the next one the running for loop
\* yields or, when that loop is over and the while condition holds, the
\* first one of a new for loop; 0 when the while loop exits.
next_accessor ==
    LET n == Len(accessors)
        j == filter_next(finished_accessors, it, n)
    IN IF j # 0 THEN j
       ELSE IF Cardinality(finished_accessors) < n
            THEN filter_next(finished_accessors, 1, n)
            ELSE 0

\* Lines 365-369: next(accessor) returns None.
EndOfStream ==
    /\ pc = "running"
    /\ next_accessor # 0
    /\ LET j == next_accessor
           r == MemoryAccessor_next(accessors[j])
       IN /\ r.ret = None
          /\ accessors' = [accessors EXCEPT ![j] = r.acc]
          /\ finished_accessors' = finished_accessors \cup {j}
          /\ it' = j + 1
    /\ UNCHANGED <<memory, page_faults_count, pc, output>>

\* Variant: the allocation path is taken on free capacity alone.
allocation_path_free_only(m, pid, page_id) == is_free(m)

\* Line 375: the test of the allocation path, on the memory after tick.
allocation_path(m, pid, page_id) == is_free(m) /\ ~contains(m, pid, page_id)

\* Variant: tick is called after the allocation path, which skips it.
Allocation_no_tick ==
    /\ pc = "running"
    /\ next_accessor # 0
    /\ LET j == next_accessor
           r == MemoryAccessor_next(accessors[j])
           pid == accessors[j].pid
           m == memory
       IN /\ r.ret # None
          /\ allocation_path(m, pid, r.ret)
          /\ accessors' = [accessors EXCEPT ![j] = r.acc]
          /\ it' = j + 1
          /\ memory' = allocate(m, pid, r.ret)
          /\ output' = Append(output, [pid |-> pid, page_id |-> r.ret,
                                       outcome |-> "ALLOCATION", swapped_page |-> None])
    /\ UNCHANGED <<page_faults_count, finished_accessors, pc>>

\* Lines 365-378: a reference served by allocation.
Allocation ==
    /\ pc = "running"
    /\ next_accessor # 0
    /\ LET j == next_accessor
           r == MemoryAccessor_next(accessors[j])
           pid == accessors[j].pid
           m == tick(memory)
       IN /\ r.ret # None
          /\ allocation_path(m, pid, r.ret)
          /\ accessors' = [accessors EXCEPT ![j] = r.acc]
          /\ it' = j + 1
          /\ memory' = allocate(m, pid, r.ret)
          /\ output' = Append(output, [pid |-> pid, page_id |-> r.ret,
                                       outcome |-> "ALLOCATION", swapped_page |-> None])
    /\ UNCHANGED <<page_faults_count, finished_accessors, pc>>

\* Variant: the counter is incremented before the try, so a hit counts.
Hit_counted ==
    /\ pc = "running"
    /\ next_accessor # 0
    /\ LET j == next_accessor
           r == MemoryAccessor_next(accessors[j])
           pid == accessors[j].pid
           m == tick(memory)
       IN /\ r.ret # None
          /\ ~allocation_path(m, pid, r.ret)
          /\ ~use(m, pid, r.ret).raised
          /\ accessors' = [accessors EXCEPT ![j] = r.acc]
          /\ it' = j + 1
          /\ memory' = use(m, pid, r.ret).m
          /\ output' = Append(output, [pid |-> pid, page_id |-> r.ret,
                                       outcome |-> "HIT", swapped_page |-> None])
    /\ page_faults_count' = page_faults_count + 1
    /\ UNCHANGED <<finished_accessors, pc>>

\* Lines 365-382: a reference served by use without PageFault.
Hit ==
    /\ pc = "running"
    /\ next_accessor # 0
    /\ LET j == next_accessor
           r == MemoryAccessor_next(accessors[j])
           pid == accessors[j].pid
           m == tick(memory)
       IN /\ r.ret # None
          /\ ~allocation_path(m, pid, r.ret)
          /\ ~use(m, pid, r.ret).raised
          /\ accessors' = [accessors EXCEPT ![j] = r.acc]
          /\ it' = j + 1
          /\ memory' = use(m, pid, r.ret).m
          /\ output' = Append(output, [pid |-> pid, page_id |-> r.ret,
                                       outcome |-> "HIT", swapped_page |-> None])
    /\ UNCHANGED <<page_faults_count, finished_accessors, pc>>

\* Lines 365-390: use raises PageFault, swap returns a page.
PageFault ==
    /\ pc = "running"
    /\ next_accessor # 0
    /\ LET j == next_accessor
           r == MemoryAccessor_next(accessors[j])
           pid == accessors[j].pid
           m == tick(memory)
       IN /\ r.ret # None
          /\ ~allocation_path(m, pid, r.ret)
          /\ use(m, pid, r.ret).raised
          /\ accessors' = [accessors EXCEPT ![j] = r.acc]
          /\ it' = j + 1
          /\ page_faults_count' = page_faults_count + 1
          /\ \E s \in swap(use(m, pid, r.ret).m, pid) :
                /\ memory' = allocate(s.m, pid, r.ret)
                /\ output' = Append(output, [pid |-> pid, page_id |-> r.ret,
                                             outcome |-> "PAGE FAULT", swapped_page |-> s.ret])
    /\ UNCHANGED <<finished_accessors, pc>>

\* Lines 365-387: use raises PageFault and swap raises (IndexError of
\* popleft, ValueError of min or max): the exception leaves simulate.
SwapRaises ==
    /\ pc = "running"
    /\ next_accessor # 0
    /\ LET j == next_accessor
           r == MemoryAccessor_next(accessors[j])
           pid == accessors[j].pid
           m == tick(memory)
       IN /\ r.ret # None
          /\ ~allocation_path(m, pid, r.ret)
          /\ use(m, pid, r.ret).raised
          /\ swap(use(m, pid, r.ret).m, pid) = {}
          /\ accessors' = [accessors EXCEPT ![j] = r.acc]
          /\ it' = j + 1
          /\ page_faults_count' = page_faults_count + 1
          /\ memory' = use(m, pid, r.ret).m
          /\ output' = Append(output, [pid |-> pid, page_id |-> r.ret,
                                       outcome |-> "PAGE FAULT", swapped_page |-> None])
    /\ pc' = "raised"
    /\ UNCHANGED finished_accessors

\* Lines 363, 392: the while loop exits and the total is printed.
Report ==
    /\ pc = "running"
    /\ next_accessor = 0
    /\ pc' = "done"
    /\ UNCHANGED <<accessors, memory, page_faults_count, finished_accessors, it, output>>

Next == EndOfStream \/ Allocation \/ Hit \/ PageFault \/ SwapRaises \/ Report

Spec == Init /\ [][Next]_vars

\* simulate is one sequential loop: a step that can be taken is taken.
LiveSpec == Spec /\ WF_vars(Next)

----------------------------------------------------------------------------
\* Vocabulary of the properties.

\* The pages a local holds, whatever the class keeps them in.
pages_of(cls, local) ==
    IF cls \in {"GlobalOptMemory", "LocalOptMemory"} THEN local
    ELSE IF cls \in {"GlobalFifoMemory", "LocalFifoMemory"} THEN Range(local)
    ELSE dict_keys(local)

\* The number of frames a local occupies (a page held twice counts twice).
frames_of(cls, local) ==
    IF cls \in {"GlobalOptMemory", "LocalOptMemory"} THEN Cardinality(local) ELSE Len(local)

\* The residents eligible as victims of a fault of pid in m.
Eligible(m, pid) ==
    IF m.cls \in GlobalClasses THEN pages_of(m.cls, m.memory)
    ELSE pages_of(m.cls, m.memory[pid])

RECURSIVE sum_frames(_, _)
sum_frames(m, keys) ==
    IF keys = {} THEN 0
    ELSE LET k == CHOOSE x \in keys : TRUE
         IN frames_of(m.cls, m.memory[k]) + sum_frames(m, keys \ {k})

\* The total number of resident pages of m.
TotalResident(m) ==
    IF m.cls \in GlobalClasses THEN frames_of(m.cls, m.memory)
    ELSE sum_frames(m, DOMAIN m.memory)

\* The step consumed a reference: one entry was printed.
Consumed == Len(output') = Len(output) + 1

LastEntry(out) == out[Len(out)]

Evicting(e) == e.outcome = "PAGE FAULT" /\ e.swapped_page # None

\* The entries of out that are faults with an eviction.
FaultsWithEviction(out) == {i \in DOMAIN out : Evicting(out[i])}

\* The entry that installed page (the latest one), 0 when there is none.
LastInstall(out, page) ==
    LET I == {i \in DOMAIN out : out[i].page_id = page /\ out[i].outcome # "HIT"}
    IN IF I = {} THEN 0 ELSE CHOOSE i \in I : \A k \in I : k <= i

\* The latest entry that referenced page, 0 when there is none.
LastTouch(out, page) ==
    LET I == {i \in DOMAIN out : out[i].page_id = page}
    IN IF I = {} THEN 0 ELSE CHOOSE i \in I : \A k \in I : k <= i

----------------------------------------------------------------------------
\* C1: in every state of a run, for each of the eight engines, the total
\* number of resident pages (summed over the partitions of a local engine)
\* is at most the configured size.
C1_Capacity == TotalResident(memory) <= memory.size

\* A full local engine with two occupied partitions has just served a fault.
C1_Witness ==
    /\ memory.cls \in LocalClasses
    /\ TotalResident(memory) = memory.size
    /\ Cardinality({pid \in DOMAIN memory.memory : Eligible(memory, pid) # {}}) >= 2
    /\ output # <<>>
    /\ Evicting(LastEntry(output))

\* C2: whenever simulate calls swap, the eligible set is not empty, so no
\* fault is left without an evicted page and no exception leaves simulate.
C2_SwapHasCandidate ==
    /\ pc # "raised"
    /\ \A i \in DOMAIN output :
          output[i].outcome = "PAGE FAULT" => output[i].swapped_page # None

\* C3: when the run ends the fault counter is the number of references whose
\* outcome was fault-with-eviction; an allocation or a hit leaves the counter
\* unchanged and a fault-with-eviction adds exactly 1 to it.
C3_FaultCount ==
    [][/\ pc' = "done" => page_faults_count' = Cardinality(FaultsWithEviction(output'))
       /\ Consumed =>
             LET e == LastEntry(output')
             IN /\ e.outcome \in {"ALLOCATION", "HIT"} =>
                      page_faults_count' = page_faults_count
                /\ Evicting(e) => page_faults_count' = page_faults_count + 1
       /\ ~Consumed => page_faults_count' = page_faults_count]_vars

\* A finished run that had allocations, a hit and two faults with eviction.
C3_Witness ==
    /\ pc = "done"
    /\ page_faults_count = 2
    /\ \E i \in DOMAIN output : output[i].outcome = "HIT"
    /\ \E i \in DOMAIN output : output[i].outcome = "ALLOCATION"

\* C4: a reference processed while the engine has free capacity (total
\* resident < size after tick) leaves the fault counter unchanged, whether
\* the page is allocated or is already resident and served as a hit.
C4_FreeNoFault ==
    [][(Consumed /\ TotalResident(tick(memory)) < memory.size)
          => /\ page_faults_count' = page_faults_count
             /\ LastEntry(output').outcome \in {"ALLOCATION", "HIT"}
             /\ LET e == LastEntry(output')
                IN (e.outcome = "HIT") <=> (e.page_id \in Eligible(memory, e.pid))]_vars

\* A hit was just served while free capacity remains and no fault was counted.
C4_Witness ==
    /\ output # <<>>
    /\ LastEntry(output).outcome = "HIT"
    /\ TotalResident(memory) < memory.size
    /\ page_faults_count = 0

\* C5: under a local engine a fault of process p leaves the membership of
\* every other partition unchanged, and the page it evicts is one of p's own
\* partition, replaced there by the faulting page.
C5_LocalEviction ==
    [][(memory.cls \in LocalClasses /\ Consumed /\ LastEntry(output').outcome = "PAGE FAULT")
          => LET e == LastEntry(output')
             IN /\ \A q \in DOMAIN memory.memory \ {e.pid} :
                      Eligible(memory', q) = Eligible(memory, q)
                /\ Evicting(e) =>
                      /\ e.swapped_page \in Eligible(memory, e.pid)
                      /\ Eligible(memory', e.pid) =
                            (Eligible(memory, e.pid) \ {e.swapped_page}) \cup {e.page_id}]_vars

\* A fault of p has just evicted one of p's pages while another process
\* holds more frames than p.
C5_Witness ==
    /\ memory.cls \in LocalClasses
    /\ output # <<>>
    /\ Evicting(LastEntry(output))
    /\ LastEntry(output).swapped_page[1] = LastEntry(output).pid
    /\ \E q \in DOMAIN memory.memory :
          frames_of(memory.cls, memory.memory[q]) >
             frames_of(memory.cls, memory.memory[LastEntry(output).pid])

\* The number of references to page since it was last installed.
Uses(out, page) ==
    Cardinality({i \in DOMAIN out : out[i].page_id = page /\ i >= LastInstall(out, page)})

\* C6: under GlobalLfuMemory the victim of a fault is a resident with the
\* smallest number of uses since its installation among all residents of all
\* processes.
C6_GlobalLfuVictim ==
    [][(memory.cls = "GlobalLfuMemory" /\ Consumed /\ Evicting(LastEntry(output')))
          => LET e == LastEntry(output')
             IN /\ e.swapped_page \in Eligible(memory, e.pid)
                /\ \A r \in Eligible(memory, e.pid) :
                      Uses(output, e.swapped_page) <= Uses(output, r)]_vars

\* A fault of B has just evicted a page of A while B had a resident of its own.
C6_Witness ==
    /\ memory.cls = "GlobalLfuMemory"
    /\ output # <<>>
    /\ Evicting(LastEntry(output))
    /\ LastEntry(output).pid = "B"
    /\ LastEntry(output).swapped_page[1] = "A"
    /\ \E r \in Eligible(memory, "B") : r[1] = "B" /\ r # LastEntry(output).page_id

\* The entry that installed the page evicted by entry i of out.
InstallOfVictim(out, i) == LastInstall(SubSeq(out, 1, i - 1), out[i].swapped_page)

C8_GlobalLruVictim ==
    [][memory.cls = "GlobalLruMemory"
          => /\ \A i \in DOMAIN memory'.memory :
                   memory'.memory[i][2] =
                      Len(output') - LastTouch(output', memory'.memory[i][1])
             /\ (Consumed /\ Evicting(LastEntry(output'))) =>
                   LET e == LastEntry(output')
                       R == Eligible(memory, e.pid)
                   IN /\ e.swapped_page \in R
                      /\ \A r \in R \ {e.swapped_page} :
                            LastTouch(output, e.swapped_page) < LastTouch(output, r)
                      /\ (/\ output # <<>>
                          /\ LastEntry(output).outcome = "HIT"
                          /\ Cardinality(R) > 1)
                            => e.swapped_page # LastEntry(output).page_id]_vars

\* A fault has just evicted X right after a hit of Y, Y installed before X.
C8_Witness ==
    /\ memory.cls = "GlobalLruMemory"
    /\ Len(output) >= 4
    /\ Evicting(LastEntry(output))
    /\ LET hit == output[Len(output) - 1]
           X == LastEntry(output).swapped_page
       IN /\ hit.outcome = "HIT"
          /\ hit.page_id \in Eligible(memory, hit.pid)
          /\ LastInstall(SubSeq(output, 1, Len(output) - 1), hit.page_id)
                < LastInstall(SubSeq(output, 1, Len(output) - 1), X)

\* The position (0-based) of the first reference to page at or after pos in
\* accesses, Len(accesses) when there is none.
NextRef(accesses, page, pos) ==
    LET I == {i \in pos..(Len(accesses) - 1) : accesses[i + 1] = page}
    IN IF I = {} THEN Len(accesses) ELSE CHOOSE i \in I : \A k \in I : i <= k

\* The pages the accessors have still to deliver.
RemainingPages(accs) ==
    UNION {{accs[j].accesses[k] : k \in (accs[j].idx + 2)..Len(accs[j].accesses)} :
              j \in DOMAIN accs}

\* C9: under GlobalOptMemory built with the merged trace the victim of a
\* fault is a resident whose next reference is farthest in the future, and
\* when exactly one resident is never referenced again, it is the victim.
C9_OptVictim ==
    [][(memory.cls = "GlobalOptMemory" /\ Consumed /\ Evicting(LastEntry(output')))
          => LET e == LastEntry(output')
                 R == Eligible(memory, e.pid)
                 pos == memory.page_pointer + 1
                 never == R \ RemainingPages(accessors')
             IN /\ e.swapped_page \in R
                /\ memory.accesses[pos + 1] = e.page_id
                /\ \A r \in R : NextRef(memory.accesses, e.swapped_page, pos)
                                   >= NextRef(memory.accesses, r, pos)
                /\ Cardinality(never) = 1 => e.swapped_page \in never]_vars

\* A fault has just evicted P, the only resident never referenced again,
\* although another resident was installed before P.
C9_Witness ==
    /\ memory.cls = "GlobalOptMemory"
    /\ output # <<>>
    /\ Evicting(LastEntry(output))
    /\ LET e == LastEntry(output)
           R == (memory.memory \ {e.page_id}) \cup {e.swapped_page}
       IN /\ Cardinality(R) >= 2
          /\ R \ RemainingPages(accessors) = {e.swapped_page}
          /\ \E r \in R : LastInstall(output, r) < LastInstall(output, e.swapped_page)

\* C10: every run of simulate ends: all streams are marked finished, the
\* loop exits and the total is printed.
C10_Terminates == <>(pc = "done" /\ Cardinality(finished_accessors) = Len(accessors))

\* The position in accessors of the accessor of pid.
StreamOf(pid) == CHOOSE j \in DOMAIN accessors : accessors[j].pid = pid

\* The rank of entry i among the entries of its process: entry i is the
\* Occ(out, i)-th reference of its stream.
Occ(out, i) == Cardinality({k \in 1..i : out[k].pid = out[i].pid})

----------------------------------------------------------------------------
\* A MemoryAccessor on its own: it is built from a pid and a list of page
\* numbers and next is called on it up to two times more than the longest
\* list has elements.  Here accessors is the
\* one accessor, memory holds the arguments of the constructor and output
\* the values returned so far.

AccessorInit ==
    /\ \E pid \in Range(pids), pages \in PageLists :
          /\ accessors = <<MemoryAccessor(pid, pages)>>
          /\ memory = [pid |-> pid, accesses |-> pages]
    /\ page_faults_count = 0
    /\ finished_accessors = {}
    /\ it = 1
    /\ pc = "next"
    /\ output = <<>>

\* One call of next(accessor).
CallNext ==
    /\ pc = "next"
    /\ Len(output) < MaxLen + 2
    /\ LET r == MemoryAccessor_next(accessors[1])
       IN /\ accessors' = <<r.acc>>
          /\ output' = Append(output, r.ret)
    /\ UNCHANGED <<memory, page_faults_count, finished_accessors, it, pc>>

AccessorSpec == AccessorInit /\ [][CallNext]_vars

\* C12: the first n calls of next on an accessor built from n page numbers
\* return the references pid+page in list order, each once, every later call
\* returns None, and the cursor only moves forward, one place per call.
C12_AccessorStream ==
    /\ \A i \in DOMAIN output :
          output[i] = IF i <= Len(memory.accesses)
                      THEN <<memory.pid, memory.accesses[i]>>
                      ELSE None
    /\ accessors[1].idx = Len(output) - 1

\* next was called twice after the last of two or more references.
C12_Witness ==
    /\ pc = "next"
    /\ Len(memory.accesses) >= 2
    /\ Len(output) = Len(memory.accesses) + 2

----------------------------------------------------------------------------
OptClasses == {"GlobalOptMemory", "LocalOptMemory"}

LruClasses == {"GlobalLruMemory", "LocalLruMemory"}

\* The items <<page, counter>> of all the dicts of an LFU or LRU engine.
AllItems(m) ==
    IF m.cls \in GlobalClasses THEN Range(m.memory)
    ELSE UNION {Range(m.memory[q]) : q \in DOMAIN m.memory}

\* C13: tick is called once for every consumed reference, whatever its
\* outcome, and not for the poll that returns None: after k consumed
\* references the position pointer of an Optimal engine is k - 1 and the
\* counter of an LRU resident is the number of references consumed since its
\* latest install or hit (0 for the page of the reference just served).
C13_TickPerReference ==
    [][/\ memory'.cls \in OptClasses => memory'.page_pointer = Len(output') - 1
       /\ memory'.cls \in LruClasses =>
             \A e \in AllItems(memory') : e[2] = Len(output') - LastTouch(output', e[1])
       /\ ~Consumed => memory' = memory]_vars

\* An LRU run after a stream has ended: a hit was just served and another
\* resident has aged by two or more references.
C13_Witness ==
    /\ memory.cls \in LruClasses
    /\ finished_accessors # {}
    /\ output # <<>>
    /\ LastEntry(output).outcome = "HIT"
    /\ \E i \in DOMAIN output : output[i].outcome = "PAGE FAULT"
    /\ \E e \in AllItems(memory) : e[2] >= 2

\* C14: a fault whose eligible set is empty makes swap raise: the exception
\* leaves simulate, the requested page is not installed, no partition loses
\* or gains a page, and nothing more is consumed afterwards.
C14_SwapFailsLoudly ==
    [][/\ (/\ Consumed
           /\ LastEntry(output').outcome = "PAGE FAULT"
           /\ Eligible(memory, LastEntry(output').pid) = {})
             => /\ pc' = "raised"
                /\ LastEntry(output').swapped_page = None
                /\ \A q \in Range(pids) : Eligible(memory', q) = Eligible(memory, q)
       /\ pc = "raised" => FALSE]_vars

\* The exception was raised for a process without residents while the other
\* process holds a page and references remain to be consumed.
C14_Witness ==
    /\ pc = "raised"
    /\ Eligible(memory, LastEntry(output).pid) = {}
    /\ \E q \in Range(pids) : Eligible(memory, q) # {}
    /\ RemainingPages(accessors) # {}

----------------------------------------------------------------------------
\* simulate as a function of its arguments: the whole run of lines 358-392,
\* for an engine whose swap has one outcome (every class but the Optimal
\* ones).  Each entry also holds what print(memory) shows for it.
RECURSIVE simulate_loop(_, _, _, _, _, _)
simulate_loop(accs, m, finished, i, count, out) ==
    LET n == Len(accs)
        j0 == filter_next(finished, i, n)
        j == IF j0 # 0 THEN j0
             ELSE IF Cardinality(finished) < n THEN filter_next(finished, 1, n) ELSE 0
    IN IF j = 0
       THEN [pc |-> "done", page_faults_count |-> count, output |-> out]
       ELSE LET r == MemoryAccessor_next(accs[j])
                accs1 == [accs EXCEPT ![j] = r.acc]
                pid == accs[j].pid
                m1 == tick(m)
                u == use(m1, pid, r.ret)
                entry(outcome, swapped, shown) ==
                    [pid |-> pid, page_id |-> r.ret, outcome |-> outcome,
                     swapped_page |-> swapped, memory |-> shown]
            IN IF r.ret = None
               THEN simulate_loop(accs1, m, finished \cup {j}, j + 1, count, out)
               ELSE IF allocation_path(m1, pid, r.ret)
               THEN simulate_loop(accs1, allocate(m1, pid, r.ret), finished, j + 1, count,
                                  Append(out, entry("ALLOCATION", None, m1)))
               ELSE IF ~u.raised
               THEN simulate_loop(accs1, u.m, finished, j + 1, count,
                                  Append(out, entry("HIT", None, u.m)))
               ELSE IF swap(u.m, pid) = {}
               THEN [pc |-> "raised", page_faults_count |-> count + 1,
                     output |-> Append(out, entry("PAGE FAULT", None, u.m))]
               ELSE LET s == CHOOSE x \in swap(u.m, pid) : TRUE
                    IN simulate_loop(accs1, allocate(s.m, pid, r.ret), finished, j + 1,
                                     count + 1,
                                     Append(out, entry("PAGE FAULT", s.ret, u.m)))

simulate(accs, m) == simulate_loop(accs, m, {}, 1, 0, <<>>)

\* The items <<page, counter>> eligible for a fault of pid in an LRU engine.
EligibleItems(m, pid) ==
    IF m.cls \in GlobalClasses THEN Range(m.memory) ELSE Range(m.memory[pid])

\* The same items as the dict that holds them.
EligibleItems_seq(m, pid) ==
    IF m.cls \in GlobalClasses THEN m.memory ELSE m.memory[pid]

\* Two eligible residents share the largest counter.
TieAtMax(m, pid) ==
    \E a, b \in EligibleItems(m, pid) :
        /\ a # b
        /\ a[2] = b[2]
        /\ \A c \in EligibleItems(m, pid) : c[2] <= a[2]

\* C15 (as claimed): for the LRU engine and capacity of the run, some
\* workload reaches a fault at which two or more eligible residents share
\* the largest recency counter.
C15_LruTieReachable ==
    memory.cls \in LruClasses =>
        \E w \in [DOMAIN pids -> PageLists] :
            LET run == simulate(get_accessors(pids, w), new_memory(memory.cls, w, memory.size))
            IN \E i \in DOMAIN run.output :
                  /\ run.output[i].outcome = "PAGE FAULT"
                  /\ TieAtMax(run.output[i].memory, run.output[i].pid)

\* C15 (amended): under the LRU engines no tie occurs: the counters of the
\* residents are pairwise distinct in every state, and at every fault the
\* victim's counter is strictly larger than that of every other eligible
\* resident.
C15_LruNoTie ==
    [][memory.cls \in LruClasses =>
          /\ \A a, b \in AllItems(memory') : a # b => a[2] # b[2]
          /\ (Consumed /\ LastEntry(output').outcome = "PAGE FAULT") =>
                LET e == LastEntry(output')
                IN /\ ~TieAtMax(tick(memory), e.pid)
                   /\ \A a \in EligibleItems(tick(memory), e.pid) :
                         a[1] # e.swapped_page =>
                            a[2] < dict_get(EligibleItems_seq(tick(memory), e.pid),
                                            e.swapped_page)]_vars

\* An LRU fault has just chosen its victim among two or more eligible
\* residents.
C15_Witness ==
    /\ memory.cls \in LruClasses
    /\ output # <<>>
    /\ Evicting(LastEntry(output))
    /\ Cardinality(EligibleItems(memory, LastEntry(output).pid)) >= 2

LfuClasses == {"GlobalLfuMemory", "LocalLfuMemory"}

FifoClasses == {"GlobalFifoMemory", "LocalFifoMemory"}

\* No local of m holds a page twice.
NoDuplicate(m) ==
    IF m.cls \in GlobalClasses
    THEN frames_of(m.cls, m.memory) = Cardinality(pages_of(m.cls, m.memory))
    ELSE \A q \in DOMAIN m.memory :
            frames_of(m.cls, m.memory[q]) = Cardinality(pages_of(m.cls, m.memory[q]))

\* C16: allocate is called only for a page that is not resident, so no
\* engine holds a page twice; a reference to a resident page is a hit, also
\* while capacity is free, and the hit keeps the page's metadata: the LFU
\* count grows by one and the FIFO queues are left as they are.
C16_NoReinstall ==
    [][Consumed =>
          LET e == LastEntry(output')
              resident == e.page_id \in Eligible(memory, e.pid)
          IN /\ e.outcome # "HIT" => ~resident
             /\ resident => e.outcome = "HIT"
             /\ NoDuplicate(memory')
             /\ (resident /\ memory.cls \in LfuClasses) =>
                   dict_get(EligibleItems_seq(memory', e.pid), e.page_id) =
                      dict_get(EligibleItems_seq(memory, e.pid), e.page_id) + 1
             /\ (resident /\ memory.cls \in FifoClasses) => memory'.memory = memory.memory]_vars

\* A page of an LFU engine with free capacity was just referenced again: it
\* is a hit and its count is 2.
C16_Witness ==
    /\ memory.cls \in LfuClasses
    /\ TotalResident(memory) < memory.size
    /\ output # <<>>
    /\ LastEntry(output).outcome = "HIT"
    /\ dict_get(EligibleItems_seq(memory, LastEntry(output).pid), LastEntry(output).page_id) = 2

Workload ==
    [j \in DOMAIN accessors |->
        [k \in DOMAIN accessors[j].accesses |-> accessors[j].accesses[k][2]]]

\* The merged trace of a fresh copy of the workload of the run.
MergedTrace == get_row_vector_from_accessors(get_accessors(pids, Workload))

\* C18: the references simulate has consumed are a prefix of the merged
\* trace and, when the run ends, the whole of it; with an Optimal engine the
\* element of the trace at the position pointer is the page being processed
\* and the distance computed for that page is 0.
C18_MergedTrace ==
    [][LET consumed == [i \in DOMAIN output' |-> output'[i].page_id]
       IN /\ Len(consumed) <= Len(MergedTrace)
          /\ consumed = SubSeq(MergedTrace, 1, Len(consumed))
          /\ pc' = "done" => consumed = MergedTrace
          /\ (Consumed /\ memory.cls \in OptClasses) =>
                /\ memory'.accesses[memory'.page_pointer + 1] = LastEntry(output').page_id
                /\ memory'.pointers_count[LastEntry(output').page_id] = 0]_vars

\* A run with an Optimal engine has ended whose streams have three and one
\* references, so that the merged trace interleaves them.
C18_Witness ==
    /\ memory.cls \in OptClasses
    /\ pc = "done"
    /\ Len(accessors[1].accesses) = 3
    /\ Len(accessors[2].accesses) = 1
    /\ Len(output) = 4

\* The fault total simulate reports for the workload and capacity of the
\* run with a fresh engine of class cls.
FaultsWith(cls) ==
    simulate(get_accessors(pids, Workload),
             new_memory(cls, Workload, memory.size)).page_faults_count

\* C19: the fault total reported with GlobalOptMemory is at most the total
\* reported for the same workload and capacity with GlobalFifoMemory, with
\* GlobalLfuMemory and with GlobalLruMemory.
C19_OptIsBest ==
    (memory.cls = "GlobalOptMemory" /\ pc = "done") =>
        \A cls \in {"GlobalFifoMemory", "GlobalLfuMemory", "GlobalLruMemory"} :
            page_faults_count <= FaultsWith(cls)

\* A run with GlobalOptMemory has ended with one fault where GlobalFifoMemory
\* reports more.
C19_Witness ==
    /\ memory.cls = "GlobalOptMemory"
    /\ pc = "done"
    /\ page_faults_count >= 1
    /\ page_faults_count < FaultsWith("GlobalFifoMemory")

\* C20: the total number of residents never decreases from one step of the
\* run to the next, so is_free, once false, stays false; in a local engine
\* whose pool is full every process keeps the number of frames it holds.
C20_SharesFrozen ==
    [][/\ TotalResident(memory') >= TotalResident(memory)
       /\ ~is_free(memory) => ~is_free(memory')
       /\ (memory.cls \in LocalClasses /\ TotalResident(memory) = memory.size) =>
             \A q \in DOMAIN memory.memory :
                frames_of(memory.cls, memory'.memory[q]) =
                   frames_of(memory.cls, memory.memory[q])]_vars

\* A full local engine whose processes hold unequal shares has served its
\* second fault.
C20_Witness ==
    /\ memory.cls \in LocalClasses
    /\ pc = "running"
    /\ TotalResident(memory) = memory.size
    /\ page_faults_count >= 2
    /\ Evicting(LastEntry(output))
    /\ \E p, q \in DOMAIN memory.memory :
          frames_of(memory.cls, memory.memory[p]) > frames_of(memory.cls, memory.memory[q])

====
